---- MODULE Spec2Model ----
(***************************************************************************)
(* A model of system_monitor.cpp: the main loop of a top-like monitor.     *)
(* One iteration of while(true) is  top poll -> [kill prompt] -> sample,   *)
(* derive, sort, draw -> sleep in 100 ms polls.                            *)
(*                                                                         *)
(* Numbers.  unsigned long long is modelled as the integers modulo Wrap    *)
(* (a narrow word instead of 64 bits).  A double holding a percentage is   *)
(* modelled as the exact fraction <<n, d>> in lowest terms: for the small  *)
(* counters used here the conversions to double are exact, and two doubles *)
(* computed as 100.0 * a / b compare as the fractions do.                  *)
(***************************************************************************)
EXTENDS Integers, Sequences, FiniteSets, TLC

\* ------------------------------------------------------------- bounds
WordBits   == 5      \* width of unsigned long long in the model
MaxTicks   == 2      \* largest total of the cpu line of /proc/stat
MaxJiffies == 1      \* largest utime + stime of a process
MaxLine    == 2      \* longest line typed at the kill prompt (short lines)

\* ------------------------------------------------- program constants
REFRESH_INTERVAL == 2
SIGTERM          == 15
ESRCH            == 3
EPERM            == 1
PageSizeKb       == 4      \* sysconf(_SC_PAGESIZE) / 1024
MemTotalKb       == 8      \* MemTotal of /proc/meminfo, when it can be read
StatFields       == 24     \* fields.size() >= 24
IntMax           == 2147483647

Wrap == 2 ^ WordBits

\* unsigned arithmetic of the given width
USub(a, b) == (a - b + Wrap) % Wrap
UAdd(a, b) == (a + b) % Wrap

\* ------------------------------------------------------------ doubles
RECURSIVE Gcd(_, _)
Gcd(a, b) == IF b = 0 THEN a ELSE Gcd(b, a % b)

\* 100.0 * (double)n / (double)d, d > 0
Percent(n, d) ==
    LET g == Gcd(100 * n, d) IN <<(100 * n) \div g, d \div g>>

Zero == <<0, 1>>
Hundred == <<100, 1>>

FGreater(a, b) == a[1] * b[2] > b[1] * a[2]
FLeq(a, b) == a[1] * b[2] <= b[1] * a[2]

\* ------------------------------------------------------- CpuSnapshot
CpuFields ==
    {"user", "nice", "system", "idle", "iowait", "irq", "softirq", "steal",
     "guest", "guest_nice"}

ZeroCpu == [f \in CpuFields |-> 0]

total(s) ==
    UAdd(UAdd(UAdd(UAdd(UAdd(UAdd(UAdd(UAdd(UAdd(s.user, s.nice), s.system),
        s.idle), s.iowait), s.irq), s.softirq), s.steal), s.guest), s.guest_nice)

idleAll(s) == UAdd(s.idle, s.iowait)

\* A first line of /proc/stat: the user, idle and iowait counters are
\* given, the other seven are 0.
CpuLine(u, d, w) == [ZeroCpu EXCEPT !.user = u, !.idle = d, !.iowait = w]

\* read_cpu_line(): the parsed first line, or all zeros if the file does
\* not open.  ok tells the two apart for the observer.
read_cpu_line(env) ==
    { [ok |-> TRUE, s |-> l] : l \in env.cpu }
      \cup { [ok |-> FALSE, s |-> ZeroCpu] : f \in env.fails }

\* ------------------------------------------------------ ProcSnapshot
\* A token of a stat line is a number, or Word: text that is not a number
\* (the state letter, a piece of the parenthesized command).
Word == -1

\* The line of /proc/<pid>/stat of a process whose command is made of
\* commWords words: pid (comm...) state, fields 4..13, utime, stime,
\* fields 16..23, rss, fields 25 and 26.  The fields the program does not
\* use hold 0.
StatLine(pid, commWords, ut, st, rss) ==
    <<pid>> \o [k \in 1..commWords |-> Word] \o <<Word>>
        \o [k \in 1..10 |-> 0] \o <<ut, st>>
        \o [k \in 1..8 |-> 0] \o <<rss>> \o <<0, 0>>

\* The ways the read of /proc/<pid>/stat can go: the file does not open
\* (the process is gone, no permission), a well-formed line, a line cut
\* short, a line whose utime is not a number.
NoFile == <<"nofile">>

StatFiles(pid, env) ==
    LET full == { StatLine(pid, w, j[1], j[2], rss) :
                    w \in env.commWords, j \in env.jiffies, rss \in env.pages }
    IN  { [open |-> TRUE, fields |-> l] : l \in full }
          \cup { [open |-> TRUE, fields |-> SubSeq(StatLine(pid, 1, 1, 1, 1), 1, n)] :
                   n \in env.cuts }
          \cup { [open |-> TRUE, fields |-> [StatLine(pid, 1, 1, 1, 1) EXCEPT ![f] = Word]] :
                   f \in env.garbled }
          \cup { [open |-> FALSE, fields |-> NoFile] }

\* stat could not be read or parsed into utime, stime and rss
Unreadable(stat) == ~stat.open \/ Len(stat.fields) < StatFields

\* stoull / stol throw std::invalid_argument on a token that is no number
Throws(stat) ==
    /\ stat.open
    /\ Len(stat.fields) >= StatFields
    /\ \/ stat.fields[14] = Word
       \/ stat.fields[15] = Word
       \/ stat.fields[24] = Word

\* A string is the sequence of its characters; NUL is the byte 0 that ends
\* every argument in /proc/<pid>/cmdline, NL the end of a line.
NUL == "\\0"
NL == "\\n"

\* std::getline(stream, str, delim) on a stream that holds bytes: the
\* characters before the first delim, or all of them when there is none.
RECURSIVE getline(_, _)
getline(bytes, delim) ==
    IF bytes = <<>> \/ Head(bytes) = delim THEN <<>>
    ELSE <<Head(bytes)>> \o getline(Tail(bytes), delim)

\* Line 112: every NUL of the string becomes a space
Spaced(str) == [k \in 1..Len(str) |-> IF str[k] = NUL THEN " " ELSE str[k]]

\* What /proc/<pid>/cmdline and /proc/<pid>/comm hold and whether they
\* open
CmdFile(open, bytes, comm_open, comm) ==
    [open |-> open, bytes |-> bytes, comm_open |-> comm_open, comm |-> comm]

NoCmd == CmdFile(FALSE, <<>>, FALSE, <<>>)

\* Lines 99-116: the command of the process
read_cmd(f) ==
    IF f.open THEN
        LET first == getline(f.bytes, NUL)
            cmd == IF first = <<>>
                     THEN (IF f.comm_open THEN getline(f.comm, NL) ELSE <<>>)
                     ELSE first
        IN  Spaced(cmd)
    ELSE <<>>

\* read_proc(pid) when nothing throws: ProcSnapshot p{} with the command
\* and with the fields of stat filled in if it opened and holds at least
\* 24 tokens.
read_proc(pid, stat, f) ==
    LET parsed == stat.open /\ Len(stat.fields) >= StatFields
    IN  [ pid   |-> pid,
          cmd   |-> read_cmd(f),
          utime |-> IF parsed THEN stat.fields[14] % Wrap ELSE 0,
          stime |-> IF parsed THEN stat.fields[15] % Wrap ELSE 0,
          rss   |-> IF parsed THEN (stat.fields[24] * PageSizeKb) % Wrap ELSE 0,
          cpu_percent |-> Zero,
          mem_percent |-> Zero ]

total_time(p) == UAdd(p.utime, p.stime)

\* list_pids(): the numeric directories of /proc in readdir order, or
\* nothing when /proc does not open.
RECURSIVE Orders(_)
Orders(S) ==
    IF S = {} THEN {<<>>}
    ELSE UNION { { <<x>> \o t : t \in Orders(S \ {x}) } : x \in S }

list_pids(env) == UNION { Orders(S) : S \in SUBSET env.pids }

Range(seq) == { seq[k] : k \in 1..Len(seq) }

\* -------------------------------------------------------- keyboard
ERR == "ERR"      \* getch() with nothing to read, nodelay on
AllKeys == {"q", "Q", "s", "S", "r", "R", "k", "K", "x"}

\* getch(): a key pushed back by ungetch comes first; otherwise one of
\* keys: a typed key, or ERR when nothing was typed and nodelay is on.
getch(queue, keys) == IF queue # <<>> THEN {Head(queue)} ELSE keys

\* ------------------------------------------------------------- atoi
Digits == {"0", "1", "2", "3", "4", "5", "6", "7", "8", "9"}

DigitVal(d) ==
    CASE d = "0" -> 0 [] d = "1" -> 1 [] d = "2" -> 2 [] d = "3" -> 3
      [] d = "4" -> 4 [] d = "5" -> 5 [] d = "6" -> 6 [] d = "7" -> 7
      [] d = "8" -> 8 [] d = "9" -> 9

\* The value of the leading digits of str, starting from acc; -1 when it
\* does not fit an int.
RECURSIVE Magnitude(_, _)
Magnitude(str, acc) ==
    IF str = <<>> \/ Head(str) \notin Digits THEN acc
    ELSE IF acc > (IntMax - DigitVal(Head(str))) \div 10 THEN -1
    ELSE Magnitude(Tail(str), 10 * acc + DigitVal(Head(str)))

RECURSIVE SkipSpace(_)
SkipSpace(str) ==
    IF str # <<>> /\ Head(str) = " " THEN SkipSpace(Tail(str)) ELSE str

\* atoi(buf): leading blanks, an optional sign, then digits up to the
\* first other character; 0 when there are no digits.  A value that does
\* not fit an int is undefined behaviour: any int may come back.
atoi(buf) ==
    LET t == SkipSpace(buf)
        neg == t # <<>> /\ Head(t) = "-"
        u == IF t # <<>> /\ Head(t) \in {"-", "+"} THEN Tail(t) ELSE t
        m == Magnitude(u, 0)
    IN  IF m = -1 THEN {-IntMax - 1, -1, 0, 1, IntMax}
        ELSE {IF neg THEN -m ELSE m}

RECURSIVE Strings(_, _)
Strings(alphabet, n) ==
    IF n = 0 THEN {<<>>}
    ELSE LET shorter == Strings(alphabet, n - 1)
         IN  shorter \cup { <<a>> \o t : a \in alphabet, t \in { x \in shorter : Len(x) = n - 1 } }

\* A line longer than any int: ten nines
LongLine == [k \in 1..10 |-> "9"]

\* kill(pid, SIGTERM): 0, or -1 with errno set
KillResults == { [res |-> 0, errno |-> 0], [res |-> -1, errno |-> ESRCH],
                 [res |-> -1, errno |-> EPERM] }

\* ------------------------------------------------------------- sort
\* The comparator of sort by CPU (lines 286-289)
comp_cpu(a, b) ==
    IF a.cpu_percent = b.cpu_percent THEN FGreater(a.mem_percent, b.mem_percent)
    ELSE FGreater(a.cpu_percent, b.cpu_percent)

\* The comparator of sort by MEM (lines 291-294)
comp_mem(a, b) ==
    IF a.mem_percent = b.mem_percent THEN FGreater(a.cpu_percent, b.cpu_percent)
    ELSE FGreater(a.mem_percent, b.mem_percent)

comp(by_cpu, a, b) == IF by_cpu THEN comp_cpu(a, b) ELSE comp_mem(a, b)

\* A variant of sort that leaves the vector as it is
sort_unsorted(v, by_cpu) == {v}

\* std::sort(first, last, comp): some permutation of the input in which no
\* element is ordered before an earlier one; std::sort is not stable, so
\* elements the comparator does not tell apart come out in any order.
sort(v, by_cpu) ==
    { [k \in 1..Len(v) |-> v[o[k]]] : o \in
        { o \in Orders(1..Len(v)) :
            \A x, y \in 1..Len(v) : x < y => ~comp(by_cpu, v[o[y]], v[o[x]]) } }

\* ------------------------------------------------------------ state
VARIABLES
    pc,                  \* where main is: "top", "prompt", "killmsg", "sample",
                         \* "procs", "sleep", "done" (returned), "aborted"
    sort_by_cpu,         \* the global sort flag
    total_mem_kb_cache,  \* MemTotal read once at startup
    prev_cpu,            \* CpuSnapshot of the previous tick
    prev_procs,          \* pid -> ProcSnapshot of the previous tick
    ungot,               \* keys pushed back with ungetch
    ch,                  \* key read at the top of the loop ("" when not in use)
    c,                   \* key read by the last poll of the sleep loop ("" once
                         \* the screen is drawn again)
    i,                   \* counter of the sleep loop
    buf,                 \* line typed at the kill prompt
    pid,                 \* atoi(buf)
    cur_cpu,             \* CpuSnapshot of this tick
    tot_diff,            \* cur_tot - prev_tot
    cpu_usage,           \* system cpu percent of this tick
    meminfo,             \* what this tick's read of /proc/meminfo gave
    mem_used,
    pids,                \* this tick's list_pids()
    idx,                 \* position of the loop over pids
    procs,               \* this tick's ProcSnapshots; sorted once drawn
    LINES,               \* terminal height at the last draw
    fields,              \* tokens of the stat line read_proc read last (<<>> when
                         \* it did not open, and once the scan is drawn)
    cmdline,             \* the cmdline and comm files read_proc read last
    footer,              \* the message on line LINES - 2
    term,                \* terminal modes, and whether endwin ran
    exit_status,         \* what main returned (-1: it has not)
    signals,             \* kill() calls made by the open kill prompt, with
                         \* what each returned
    old_pids,            \* pids of prev_procs when this tick began
    unread,              \* pids of this tick whose stat was not read or parsed
    s_count,             \* s/S keys taken by the polls: 0, 1, then 2 or 3
                         \* (two or more, even or odd)
    stat_ok              \* whether this tick's /proc/stat opened

vars ==
    <<pc, sort_by_cpu, total_mem_kb_cache, prev_cpu, prev_procs, ungot, ch, c, i,
      buf, pid, cur_cpu, tot_diff, cpu_usage, meminfo, mem_used, pids, idx, procs,
      LINES, fields, cmdline, footer, term, exit_status, signals, old_pids, unread, s_count, stat_ok>>

sysvars == <<total_mem_kb_cache, prev_cpu, prev_procs>>
tickvars ==
    <<cur_cpu, tot_diff, cpu_usage, meminfo, mem_used, pids, idx, procs, old_pids,
      unread, stat_ok>>
screenvars == <<LINES>>
readvars == <<fields, cmdline>>
promptvars == <<buf, pid, signals>>

NoMeminfo == [ok |-> FALSE, has_avail |-> FALSE, avail |-> 0, free |-> 0]

\* /proc/meminfo as read by the loop: MemAvailable (when the line is
\* there) and MemFree, each 0 when not read.
MemInfo(has_avail, a, f) ==
    [ok |-> TRUE, has_avail |-> has_avail, avail |-> IF has_avail THEN a ELSE 0, free |-> f]

\* The reads of /proc/meminfo: those of env, or nothing at all where the
\* file can fail to open (env.fails is {"open"} there, else {}).
MemReads(env) == env.meminfo \cup { NoMeminfo : f \in env.fails }

\* read_total_memory_kb(): MemTotal, or 0 when it is not found
read_total_memory_kb(env) == {MemTotalKb} \cup { 0 : f \in env.fails }

\* main() up to the while loop: the terminal is set up, the totals and
\* the priming cpu snapshot are read, the process map is empty.
InitOn(env) ==
    /\ pc = "top"
    /\ sort_by_cpu = TRUE
    /\ total_mem_kb_cache \in read_total_memory_kb(env)
    /\ prev_cpu \in { r.s : r \in read_cpu_line(env) }
    /\ prev_procs = <<>>
    /\ ungot = <<>>
    /\ ch = ""
    /\ c = ""
    /\ i = 0
    /\ buf = <<>>
    /\ pid = 0
    /\ cur_cpu = ZeroCpu
    /\ tot_diff = 0
    /\ cpu_usage = Zero
    /\ meminfo = NoMeminfo
    /\ mem_used = 0
    /\ pids = <<>>
    /\ idx = 1
    /\ procs = <<>>
    /\ LINES = 0
    /\ fields = <<>>
    /\ cmdline = NoCmd
    /\ footer = [kind |-> "none", pid |-> 0, errno |-> 0]
    /\ term = [echo |-> FALSE, cursor |-> FALSE, nodelay |-> TRUE, ended |-> FALSE]
    /\ exit_status = -1
    /\ signals = <<>>
    /\ old_pids = {}
    /\ unread = {}
    /\ s_count = 0
    /\ stat_ok = TRUE

\* one more s/S key taken
CountS(n) == IF n = 3 THEN 2 ELSE n + 1

\* cleanup: endwin(); return 0;
cleanup ==
    /\ pc' = "done"
    /\ term' = [term EXCEPT !.ended = TRUE]
    /\ exit_status' = 0

\* The top of the loop (lines 190-201): one getch and its dispatch.  On
\* k/K the terminal is switched to blocking, echoing input and the prompt
\* is drawn; the read of the line is KillPrompt.
TopPoll(env) ==
    /\ pc = "top"
    /\ \E key \in getch(ungot, env.topkeys) :
        /\ ungot' = IF ungot # <<>> THEN Tail(ungot) ELSE ungot
        /\ ch' = key
        /\ IF key \in {"q", "Q"} THEN
              /\ cleanup
              /\ UNCHANGED <<sort_by_cpu, s_count, footer, signals>>
           ELSE IF key \in {"s", "S"} THEN
              /\ sort_by_cpu' = ~sort_by_cpu
              /\ s_count' = CountS(s_count)
              /\ pc' = "sample"
              /\ UNCHANGED <<term, exit_status, footer, signals>>
           ELSE IF key \in {"k", "K"} THEN
              /\ term' = [term EXCEPT !.echo = TRUE, !.cursor = TRUE, !.nodelay = FALSE]
              /\ footer' = [kind |-> "prompt", pid |-> 0, errno |-> 0]
              /\ signals' = <<>>
              /\ pc' = "prompt"
              /\ UNCHANGED <<sort_by_cpu, s_count, exit_status>>
           ELSE
              /\ pc' = "sample"
              /\ UNCHANGED <<sort_by_cpu, s_count, term, exit_status, footer, signals>>
    /\ UNCHANGED <<sysvars, readvars, tickvars, screenvars, c, i, buf, pid>>

\* A variant of send_signal: "if (pid)" for "if (pid > 0)"
send_signal_nonzero(p) == p # 0

\* The test of line 205: is the signal sent
send_signal(p) == p > 0

\* The message of lines 207-214
kill_message(p, k) ==
    IF ~send_signal(p) THEN [kind |-> "invalid", pid |-> 0, errno |-> 0]
    ELSE IF k.res = 0 THEN [kind |-> "sent", pid |-> p, errno |-> 0]
    ELSE [kind |-> "failed", pid |-> p, errno |-> k.errno]

\* The kill prompt (lines 202-214): a line is read, atoi gives the pid,
\* the signal is sent if the pid is positive, and the outcome is printed.
KillPrompt(env) ==
    /\ pc = "prompt"
    /\ \E line \in env.lines : \E p \in atoi(line) : \E k \in KillResults :
        /\ buf' = line
        /\ pid' = p
        /\ signals' = IF send_signal(p)
                        THEN Append(signals, [pid |-> p, sig |-> SIGTERM,
                                              res |-> k.res, errno |-> k.errno])
                        ELSE signals
        /\ footer' = kill_message(p, k)
    /\ pc' = "killmsg"
    /\ UNCHANGED <<sysvars, readvars, tickvars, screenvars, sort_by_cpu, s_count, ungot, ch, c, i,
                   term, exit_status>>

\* A variant of after_dismiss that dispatches the key as the polls do
after_dismiss_toggle(key, b) == IF key \in {"s", "S"} THEN ~b ELSE b

\* Line 215: getch(); the key is dropped, the sort flag stays
after_dismiss(key, b) == b

\* Lines 215-218: any key dismisses the message; the terminal goes back to
\* non-blocking input without echo; buf and pid go out of scope.
KillDismiss(env) ==
    /\ pc = "killmsg"
    /\ \E key \in env.topkeys \ {ERR} :
        /\ term' = [term EXCEPT !.echo = FALSE, !.cursor = FALSE, !.nodelay = TRUE]
        /\ sort_by_cpu' = after_dismiss(key, sort_by_cpu)
    /\ buf' = <<>>
    /\ pid' = 0
    /\ signals' = <<>>
    /\ pc' = "sample"
    /\ UNCHANGED <<sysvars, readvars, tickvars, screenvars, s_count, ungot, ch, c, i,
                   footer, exit_status>>

\* Line 228: the system cpu percent
system_cpu_percent(td, idle_diff) ==
    IF td > 0 THEN Percent(USub(td, idle_diff), td) ELSE Zero

\* Lines 248-250: used memory
used_memory(mem_total, mem_available, mem_free) ==
    IF mem_total > mem_available THEN mem_total - mem_available
    ELSE USub(mem_total, mem_free)

\* Lines 221-255: the cpu snapshot and its deltas, the memory summary and
\* the list of process ids.
SampleSystem(env) ==
    /\ pc = "sample"
    /\ \E r \in read_cpu_line(env) : \E m \in MemReads(env) : \E scan \in list_pids(env) :
        LET td == USub(total(r.s), total(prev_cpu))
            idle_diff == USub(idleAll(r.s), idleAll(prev_cpu))
        IN  /\ cur_cpu' = r.s
            /\ stat_ok' = r.ok
            /\ tot_diff' = td
            /\ cpu_usage' = system_cpu_percent(td, idle_diff)
            /\ meminfo' = m
            /\ mem_used' = used_memory(total_mem_kb_cache, m.avail, m.free)
            /\ pids' = scan
    /\ idx' = 1
    /\ procs' = <<>>
    /\ unread' = {}
    /\ old_pids' = DOMAIN prev_procs
    /\ ch' = ""
    /\ pc' = "procs"
    /\ UNCHANGED <<sysvars, readvars, screenvars, promptvars, sort_by_cpu, s_count, ungot, c, i,
                   footer, term, exit_status>>

\* A variant of cpu_pct without the test prev_procs.count(pid): a pid
\* that is not in the map is read as the zero snapshot operator[] makes.
cpu_pct_nocount(prev, cur, td) ==
    LET prev_total_time == IF cur.pid \in DOMAIN prev
                             THEN total_time(prev[cur.pid]) ELSE 0
        cur_total_time == total_time(cur)
        proc_time_diff == IF cur_total_time >= prev_total_time
                            THEN cur_total_time - prev_total_time ELSE 0
    IN  IF td > 0 THEN Percent(proc_time_diff, td) ELSE Zero

\* A variant of cpu_pct without the test cur_total_time >= prev_total_time:
\* the unsigned difference is taken as it comes.
cpu_pct_wrap(prev, cur, td) ==
    IF cur.pid \in DOMAIN prev THEN
        LET prev_total_time == total_time(prev[cur.pid])
            cur_total_time == total_time(cur)
            proc_time_diff == USub(cur_total_time, prev_total_time)
        IN  IF td > 0 THEN Percent(proc_time_diff, td) ELSE Zero
    ELSE Zero

\* Lines 259-270: the cpu percent of the process cur against the previous
\* map
cpu_pct(prev, cur, td) ==
    IF cur.pid \in DOMAIN prev THEN
        LET prev_total_time == total_time(prev[cur.pid])
            cur_total_time == total_time(cur)
            proc_time_diff == IF cur_total_time >= prev_total_time
                                THEN cur_total_time - prev_total_time ELSE 0
        IN  IF td > 0 THEN Percent(proc_time_diff, td) ELSE Zero
    ELSE Zero

\* Lines 273-275
mem_pct(cur, mem_total) ==
    IF mem_total > 0 THEN Percent(cur.rss, mem_total) ELSE Zero

\* One iteration of the loop over pids (lines 256-277).  An exception of
\* stoull or stol is caught nowhere: the program is terminated as it is.
ReadProc(env) ==
    /\ pc = "procs"
    /\ idx <= Len(pids)
    /\ \E stat \in StatFiles(pids[idx], env) : \E f \in env.cmdfiles :
        /\ fields' = (IF stat.open THEN stat.fields ELSE <<>>)
        /\ cmdline' = f
        /\ IF Throws(stat) THEN
            /\ pc' = "aborted"
            /\ UNCHANGED <<procs, idx, unread>>
           ELSE
            LET cur == read_proc(pids[idx], stat, f) IN
            /\ procs' = Append(procs,
                   [cur EXCEPT !.cpu_percent = cpu_pct(prev_procs, cur, tot_diff),
                               !.mem_percent = mem_pct(cur, total_mem_kb_cache)])
            /\ idx' = idx + 1
            /\ unread' = IF Unreadable(stat) THEN unread \cup {pids[idx]} ELSE unread
            /\ pc' = "procs"
    /\ UNCHANGED <<sysvars, screenvars, promptvars, sort_by_cpu, s_count, ungot, ch, c, i,
                   footer, term, exit_status, cur_cpu, tot_diff, cpu_usage, meminfo,
                   mem_used, pids, old_pids, stat_ok>>

\* A variant of update_prev_procs without prev_procs.clear()
update_prev_procs_noclear(prev, v) ==
    [q \in DOMAIN prev \cup { v[k].pid : k \in 1..Len(v) } |->
        IF \E e \in Range(v) : e.pid = q
          THEN (CHOOSE e \in Range(v) : e.pid = q) ELSE prev[q]]

\* Lines 280-281: the map of the next tick holds this tick's snapshots
update_prev_procs(prev, v) ==
    [q \in { v[k].pid : k \in 1..Len(v) } |->
        (CHOOSE e \in Range(v) : e.pid = q)]

\* (size_t)max_rows
AsSizeT(n) == IF n < 0 THEN n + Wrap ELSE n

\* Lines 306-312: the rows drawn.  Row k (from 0) is printed on line 3 + k
\* while k < (size_t)max_rows; mvprintw prints nothing below the screen.
draw_rows(v, height) ==
    LET max_rows == height - 5
        n == Cardinality({ k \in 0..(Len(v) - 1) :
                             k < AsSizeT(max_rows) /\ 3 + k < height })
    IN  SubSeq(v, 1, n)

\* The process rows on the screen after a draw
rows == draw_rows(procs, LINES)

\* Line 301: the sort key named in the title row when the screen is drawn
title == IF sort_by_cpu THEN "CPU" ELSE "MEM"

\* Lines 279-314: the previous map and snapshot are replaced, the rows are
\* sorted by the sort key, the screen is erased and drawn.
Render(env) ==
    /\ pc = "procs"
    /\ idx > Len(pids)
    /\ prev_procs' = update_prev_procs(prev_procs, procs)
    /\ prev_cpu' = cur_cpu
    /\ \E sorted \in sort(procs, sort_by_cpu) : \E height \in env.heights :
        /\ procs' = sorted
        /\ LINES' = height
    /\ fields' = <<>>
    /\ cmdline' = NoCmd
    /\ footer' = [kind |-> "none", pid |-> 0, errno |-> 0]
    /\ i' = 0
    /\ c' = ""
    /\ pc' = "sleep"
    /\ UNCHANGED <<total_mem_kb_cache, promptvars, sort_by_cpu, s_count, ungot, ch,
                   term, exit_status, cur_cpu, tot_diff, cpu_usage, meminfo, mem_used,
                   pids, idx, unread, stat_ok, old_pids>>

\* A variant of sleep_toggle that sets the flag instead of flipping it
sleep_toggle_off(b) == FALSE

\* Lines 321-323: s/S in the sleep loop
sleep_toggle(b) == ~b

\* A variant of sleep_quit that misses the capital
sleep_quit_lower(key) == key = "q"

\* Line 320: the keys that quit from the sleep loop
sleep_quit(key) == key \in {"q", "Q"}

\* A variant of push_back without the ungetch
push_back_none(queue) == queue

\* Line 326: ungetch('k')
push_back(queue) == <<"k">> \o queue

\* One iteration of the sleep loop (lines 317-329): napms(100), one getch
\* and its dispatch.  i goes out of scope when the loop is left.
SleepPoll(env) ==
    /\ pc = "sleep"
    /\ i < REFRESH_INTERVAL * 10
    /\ \E key \in getch(ungot, env.sleepkeys) :
        /\ IF sleep_quit(key) THEN
              /\ cleanup
              /\ c' = key
              /\ UNCHANGED <<sort_by_cpu, s_count, ungot, i>>
           ELSE IF key \in {"s", "S"} THEN
              /\ sort_by_cpu' = sleep_toggle(sort_by_cpu)
              /\ s_count' = CountS(s_count)
              /\ pc' = "top"
              /\ c' = key
              /\ i' = 0
              /\ UNCHANGED <<ungot, term, exit_status>>
           ELSE IF key \in {"k", "K"} THEN
              /\ ungot' = push_back(ungot)
              /\ pc' = "top"
              /\ c' = key
              /\ i' = 0
              /\ UNCHANGED <<sort_by_cpu, s_count, term, exit_status>>
           ELSE IF i + 1 < REFRESH_INTERVAL * 10 THEN
              /\ i' = i + 1
              /\ c' = key
              /\ pc' = "sleep"
              /\ UNCHANGED <<sort_by_cpu, s_count, ungot, term, exit_status>>
           ELSE
              /\ pc' = "top"
              /\ c' = key
              /\ i' = 0
              /\ UNCHANGED <<sort_by_cpu, s_count, ungot, term, exit_status>>
    /\ UNCHANGED <<sysvars, readvars, tickvars, screenvars, promptvars, ch, footer>>

\* ------------------------------------------------------ environments
\* One command of one argument
OneCmd == { CmdFile(TRUE, <<"a", NUL>>, TRUE, <<"c", NL>>) }

\* What the machine and the operator give.  Session: every key and every
\* line at the prompt, on a machine that does not change.  CpuLoad: cpu
\* counters that move in every way and files of /proc that fail to open.
\* ProcLoad: processes that come, go, run and cannot be read.  Under the
\* two loads the operator only toggles the sort or quits, and does so at
\* the first poll of every sleep.
Session ==
    [ topkeys   |-> AllKeys \cup {ERR},
      sleepkeys |-> AllKeys \cup {ERR},
      lines     |-> Strings({"0", "1", "-", "+", " ", "x"}, MaxLine) \cup {LongLine},
      cpu       |-> { CpuLine(1, 1, 0) },
      meminfo   |-> { MemInfo(TRUE, 0, 0) },
      fails     |-> {},
      pids      |-> {1},
      cmdfiles  |-> OneCmd,
      commWords |-> {1},
      jiffies   |-> {<<0, 0>>},
      pages     |-> {0},
      cuts      |-> {StatFields - 1},
      garbled   |-> {14},
      heights   |-> {6} ]

CpuLoad ==
    [ topkeys   |-> {ERR, "s", "q"},
      sleepkeys |-> {"s", "q"},
      lines     |-> {},
      cpu       |-> { CpuLine(l[1], l[2], l[3]) : l \in
                        { l \in (0..MaxTicks) \X (0..MaxTicks) \X (0..MaxTicks) :
                            l[1] + l[2] + l[3] <= MaxTicks } },
      meminfo   |-> { MemInfo(TRUE, MemTotalKb \div 2, 0), MemInfo(FALSE, 0, 0) },
      fails     |-> {"open"},
      pids      |-> {1},
      cmdfiles  |-> OneCmd,
      commWords |-> {1},
      jiffies   |-> {<<0, 0>>},
      pages     |-> {0},
      cuts      |-> {},
      garbled   |-> {},
      heights   |-> {6} ]

ProcLoad ==
    [ topkeys   |-> {ERR, "s", "q"},
      sleepkeys |-> {"s", "q"},
      lines     |-> {},
      cpu       |-> { CpuLine(1, 1, 0), CpuLine(2, 1, 0) },
      meminfo   |-> { MemInfo(TRUE, 0, 0) },
      fails     |-> {},
      pids      |-> {1, 2},
      cmdfiles  |-> OneCmd,
      commWords |-> {1},
      jiffies   |-> { <<ut, 0>> : ut \in 0..MaxJiffies } \cup { <<0, MaxJiffies>> },
      pages     |-> {0, 1},
      cuts      |-> {StatFields - 1},
      garbled   |-> {14},
      heights   |-> {7} ]

\* The loop with the kill prompt
Step(env) ==
    \/ TopPoll(env)
    \/ KillPrompt(env)
    \/ KillDismiss(env)
    \/ SampleSystem(env)
    \/ ReadProc(env)
    \/ Render(env)
    \/ SleepPoll(env)

\* The loop of an operator who never presses k
StepNoKill(env) ==
    \/ TopPoll(env)
    \/ SampleSystem(env)
    \/ ReadProc(env)
    \/ Render(env)
    \/ SleepPoll(env)

Init == InitOn(Session)
Next == Step(Session)
Spec == Init /\ [][Next]_vars

InitCpu == InitOn(CpuLoad)
NextCpu == StepNoKill(CpuLoad)
SpecCpu == InitCpu /\ [][NextCpu]_vars

InitProcs == InitOn(ProcLoad)
NextProcs == StepNoKill(ProcLoad)
SpecProcs == InitProcs /\ [][NextProcs]_vars

\* Terminals of several heights, the shortest ones included
Screen ==
    [ topkeys   |-> {ERR, "s", "q"},
      sleepkeys |-> {"s", "q"},
      lines     |-> {},
      cpu       |-> { CpuLine(1, 1, 0) },
      meminfo   |-> { MemInfo(TRUE, 0, 0) },
      fails     |-> {},
      pids      |-> {1, 2},
      cmdfiles  |-> OneCmd,
      commWords |-> {1},
      jiffies   |-> { <<0, 0>> },
      pages     |-> {0},
      cuts      |-> {},
      garbled   |-> {},
      heights   |-> {3, 4, 5, 6, 7} ]

InitScreen == InitOn(Screen)
NextScreen == StepNoKill(Screen)
SpecScreen == InitScreen /\ [][NextScreen]_vars

\* Nobody at the keyboard but for keys the polls drop, on a machine whose
\* files read as they should or hold a token that is no number
Idle ==
    [ topkeys   |-> {ERR, "x"},
      sleepkeys |-> {ERR, "r", "x"},
      lines     |-> {},
      cpu       |-> { CpuLine(1, 1, 0), CpuLine(2, 1, 0) },
      meminfo   |-> { MemInfo(TRUE, 0, 0) },
      fails     |-> {},
      pids      |-> {1},
      cmdfiles  |-> OneCmd,
      commWords |-> {1},
      jiffies   |-> { <<0, 0>>, <<1, 0>> },
      pages     |-> {0},
      cuts      |-> {},
      garbled   |-> {14},
      heights   |-> {6} ]

\* The process is scheduled as long as it has not ended: napms returns
\* after its delay and every read of /proc returns, so a step that can be
\* taken is taken.
InitIdle == InitOn(Idle)
NextIdle == StepNoKill(Idle)
SpecIdle == InitIdle /\ [][NextIdle]_vars /\ WF_vars(NextIdle)

\* /proc/meminfo with and without the MemAvailable line, the two values
\* from nothing to all of the memory
MemLoad ==
    [ topkeys   |-> {ERR, "s", "q"},
      sleepkeys |-> {"s", "q"},
      lines     |-> {},
      cpu       |-> { CpuLine(1, 1, 0) },
      meminfo   |-> { MemInfo(h, a, f) : h \in BOOLEAN,
                        a \in {0, MemTotalKb \div 2, MemTotalKb},
                        f \in {0, MemTotalKb \div 2, MemTotalKb} },
      fails     |-> {},
      pids      |-> {1},
      cmdfiles  |-> OneCmd,
      commWords |-> {1},
      jiffies   |-> { <<0, 0>> },
      pages     |-> {0, 1},
      cuts      |-> {},
      garbled   |-> {},
      heights   |-> {6} ]

InitMem == InitOn(MemLoad)
NextMem == StepNoKill(MemLoad)
SpecMem == InitMem /\ [][NextMem]_vars

\* Commands of one word and of several: a name with spaces or closing
\* parentheses in it makes more than one token of the stat line
StatLoad ==
    [ topkeys   |-> {ERR, "s", "q"},
      sleepkeys |-> {"s", "q"},
      lines     |-> {},
      cpu       |-> { CpuLine(1, 1, 0), CpuLine(2, 1, 0) },
      meminfo   |-> { MemInfo(TRUE, 0, 0) },
      fails     |-> {},
      pids      |-> {1},
      cmdfiles  |-> OneCmd,
      commWords |-> {1, 2, 3},
      jiffies   |-> { <<1, 2>>, <<2, 1>>, <<3, 3>> },
      pages     |-> {1, 2},
      cuts      |-> {StatFields - 1},
      garbled   |-> {},
      heights   |-> {6} ]

InitStat == InitOn(StatLoad)
NextStat == StepNoKill(StatLoad)
SpecStat == InitStat /\ [][NextStat]_vars

\* Command lines of up to MaxCmd bytes, arguments of one letter or more
\* and empty ones among them, and a cmdline that does not open
MaxCmd == 4

CmdLoad ==
    [ topkeys   |-> {ERR, "s", "q"},
      sleepkeys |-> {"s", "q"},
      lines     |-> {},
      cpu       |-> { CpuLine(1, 1, 0) },
      meminfo   |-> { MemInfo(TRUE, 0, 0) },
      fails     |-> {},
      pids      |-> {1},
      cmdfiles  |-> { CmdFile(TRUE, b, TRUE, <<"c", NL>>) :
                        b \in Strings({"a", "b", NUL}, MaxCmd) }
                      \cup { CmdFile(TRUE, <<>>, FALSE, <<>>), NoCmd },
      commWords |-> {1},
      jiffies   |-> { <<0, 0>> },
      pages     |-> {0},
      cuts      |-> {},
      garbled   |-> {},
      heights   |-> {6} ]

InitCmd == InitOn(CmdLoad)
NextCmd == StepNoKill(CmdLoad)
SpecCmd == InitCmd /\ [][NextCmd]_vars

\* ============================================================ claims
RowPids == { rows[k].pid : k \in 1..Len(rows) }

\* C1: on every tick with tot_diff > 0 the system cpu percent shown is
\* between 0 and 100.
C1_SystemCpuPercentInRange ==
    (pc = "sleep" /\ tot_diff > 0) =>
        FLeq(Zero, cpu_usage) /\ FLeq(cpu_usage, Hundred)

\* C2: after every tick the pids of the previous-process map are pids of
\* that tick's scan, and a pid that was in the map when the tick began
\* and is not in the scan is neither in the map nor in a drawn row.
C2_MapHoldsOnlyScannedPids ==
    pc = "sleep" =>
        /\ DOMAIN prev_procs \subseteq Range(pids)
        /\ \A q \in old_pids \ Range(pids) :
              q \notin DOMAIN prev_procs /\ q \notin RowPids

C2_Witness ==
    /\ pc = "sleep"
    /\ old_pids \ Range(pids) # {}
    /\ DOMAIN prev_procs # {}

\* C3: a process in the scan that was not in the previous map has cpu
\* percent 0 in this tick's row, whatever its utime + stime.
C3_NewProcessHasZeroCpu ==
    pc = "sleep" =>
        \A k \in 1..Len(procs) :
            procs[k].pid \notin old_pids => procs[k].cpu_percent = Zero

C3_Witness ==
    /\ pc = "sleep"
    /\ tot_diff > 0
    /\ old_pids # {}
    /\ \E k \in 1..Len(rows) :
          rows[k].pid \notin old_pids /\ total_time(rows[k]) > 0

\* The order the claim gives: by the key of the sort mode descending, then
\* by the other percentage descending, then by pid ascending.
Before(by_cpu, a, b) ==
    LET k1(p) == IF by_cpu THEN p.cpu_percent ELSE p.mem_percent
        k2(p) == IF by_cpu THEN p.mem_percent ELSE p.cpu_percent
    IN  \/ FGreater(k1(a), k1(b))
        \/ k1(a) = k1(b) /\ FGreater(k2(a), k2(b))
        \/ k1(a) = k1(b) /\ k2(a) = k2(b) /\ a.pid < b.pid

\* C4: the rows are drawn in the total order of the sort mode, rows equal
\* in both percentages in ascending pid order.
C4_RowsInTotalOrder ==
    pc = "sleep" =>
        \A x, y \in 1..Len(rows) : x < y => Before(sort_by_cpu, rows[x], rows[y])

\* C5: an r/R seen by a poll of the sleep loop ends the sleep at that poll.
C5_RefreshKeyEndsSleep ==
    c \in {"r", "R"} => pc # "sleep"

\* C6: q/Q read by the poll at the top of the loop or by a poll of the
\* sleep loop ends the program at once: nothing is sampled or drawn any
\* more, endwin has run and main returns 0.
C6_QuitExits ==
    [][ /\ ( \/ pc = "top" /\ ch' \in {"q", "Q"}
             \/ pc = "sleep" /\ c' \in {"q", "Q"} )
           => /\ pc' = "done"
              /\ term'.ended
              /\ exit_status' = 0
              /\ UNCHANGED <<sysvars, tickvars, screenvars>>
        /\ pc = "done" => UNCHANGED vars ]_vars

C6_Witness ==
    /\ pc = "done"
    /\ c = "Q"
    /\ LINES > 0
    /\ term.ended
    /\ exit_status = 0

\* C7: at the kill prompt the signal is sent, once, with SIGTERM and the
\* parsed pid, if and only if the line parses to a positive integer;
\* otherwise "Invalid PID." is shown; a failed kill shows the pid and the
\* errno, a successful one shows success.
C7_KillPromptSignals ==
    pc = "killmsg" =>
        /\ pid \in atoi(buf)
        /\ pid > 0 <=> Len(signals) = 1
        /\ pid <= 0 => signals = <<>> /\ footer.kind = "invalid"
        /\ pid > 0 =>
              /\ signals[1].pid = pid
              /\ signals[1].sig = SIGTERM
              /\ footer.pid = pid
              /\ signals[1].res = 0 => footer.kind = "sent"
              /\ signals[1].res # 0 =>
                    footer.kind = "failed" /\ footer.errno = signals[1].errno

C7_Witness ==
    /\ pc = "killmsg"
    /\ buf = <<"1", "1">>
    /\ footer = [kind |-> "failed", pid |-> 11, errno |-> ESRCH]

\* C8: two s/S keys in a row leave the sort key as it was: the sort key
\* is the one of startup exactly when an even number of s/S keys was
\* taken by the polls.
C8_TwoTogglesRestoreSort ==
    sort_by_cpu <=> (s_count % 2 = 0)

C8_Witness ==
    /\ s_count = 2
    /\ sort_by_cpu
    /\ pc = "top"
    /\ LINES > 0

\* C9: a process whose stat could not be read or parsed on a tick has no
\* row and no entry in the map of that tick.
C9_UnreadProcessOmitted ==
    pc = "sleep" =>
        \A q \in unread : q \notin DOMAIN prev_procs /\ q \notin RowPids

\* C10: when /proc/stat cannot be read while the previous snapshot is not
\* zero, the cpu percent shown is 0; when /proc/meminfo cannot be read,
\* the used memory shown is 0.
C10_FailedReadsShowZero ==
    pc = "sleep" =>
        /\ (~stat_ok /\ tot_diff # 0) => cpu_usage = Zero
        /\ ~meminfo.ok => mem_used = 0

\* C11: the terminal is released on every exit path: whenever the program
\* has stopped, by a quit key at the top of the loop or in the sleep loop
\* or by a fatal error while sampling, endwin has been executed.
C11_TerminalReleasedOnExit ==
    pc \in {"done", "aborted"} => term.ended

\* C12: the number of process rows drawn is at most max_rows, the
\* terminal height minus 5, and no process row is drawn when max_rows is
\* zero or negative, as on a terminal of fewer than 5 lines.
C12_RowsWithinMaxRows ==
    pc = "sleep" =>
        /\ LINES - 5 > 0 => Len(rows) <= LINES - 5
        /\ LINES - 5 <= 0 => Len(rows) = 0

\* C13: the kill prompt leaves the session state alone: from the step
\* that opens the prompt to the step that dismisses its message, the sort
\* key, the previous CPU snapshot and the previous-process map stay as
\* they were.
C13_KillPromptKeepsSession ==
    [][ (pc' = "prompt" \/ pc \in {"prompt", "killmsg"})
            => UNCHANGED <<sort_by_cpu, prev_cpu, prev_procs>> ]_vars

C13_Witness ==
    /\ pc = "sample"
    /\ footer.kind \in {"sent", "failed", "invalid"}
    /\ ~sort_by_cpu
    /\ prev_cpu # ZeroCpu
    /\ DOMAIN prev_procs # {}

\* C14: a k/K read by a poll of the sleep loop is pushed back and ends
\* the sleep at that poll; the next poll at the top of the loop takes the
\* pushed-back key and opens the kill prompt before any sample; and the
\* kill prompt is opened by the poll at the top of the loop only.
C14_KillKeyDeferredToTop ==
    [][ /\ (pc = "sleep" /\ c' \in {"k", "K"})
            => pc' = "top" /\ ungot' = <<"k">> /\ UNCHANGED <<sysvars, tickvars>>
        /\ (pc = "top" /\ ungot # <<>>)
            => pc' = "prompt" /\ ch' = "k" /\ ungot' = <<>>
                 /\ UNCHANGED <<sysvars, tickvars>>
        /\ (pc' = "prompt" /\ pc # "prompt") => pc = "top" ]_vars

C14_Witness ==
    /\ pc = "prompt"
    /\ c = "K"
    /\ ch = "k"
    /\ ungot = <<>>

\* The rows are in descending order of the percentage the sort key names
OrderedByKey(by_cpu, v) ==
    LET key(p) == IF by_cpu THEN p.cpu_percent ELSE p.mem_percent
    IN  \A x, y \in 1..Len(v) : x < y => FLeq(key(v[y]), key(v[x]))

\* What C15 and its amended form share: an s/S read by a poll of the
\* sleep loop flips the sort key and ends the sleep at that poll; sampling
\* keeps the sort key; the title drawn names the sort key and the rows
\* drawn are ordered by it.
SleepToggleThenRender ==
    /\ (pc = "sleep" /\ c' \in {"s", "S"})
        => pc' = "top" /\ sort_by_cpu' = ~sort_by_cpu
    /\ pc \in {"sample", "procs"}
        => sort_by_cpu' = sort_by_cpu /\ pc' \in {"procs", "sleep", "aborted"}
    /\ (pc = "procs" /\ pc' = "sleep")
        => /\ title' = (IF sort_by_cpu THEN "CPU" ELSE "MEM")
           /\ OrderedByKey(sort_by_cpu, rows')

\* C15: an s/S read by a poll of the sleep loop ends the sleep at that
\* poll with no further wait, and the next thing that happens is a new
\* sample and a draw that shows the flipped sort key, the rows ordered by
\* it.
C15_SleepToggleResamples ==
    [][ /\ SleepToggleThenRender
        /\ (pc = "top" /\ c \in {"s", "S"})
            => pc' = "sample" /\ sort_by_cpu' = sort_by_cpu ]_vars

\* C15, amended: the new sample and the draw with the flipped sort key
\* follow when the poll at the top of the loop, which runs first, reads
\* no key or a key that is none of q, s, k; that poll acts on a q, s or k
\* it reads before anything is sampled.
C15_SleepToggleResamplesUnlessKey ==
    [][ /\ SleepToggleThenRender
        /\ (pc = "top" /\ c \in {"s", "S"}
              /\ ch' \notin {"q", "Q", "s", "S", "k", "K"})
            => pc' = "sample" /\ sort_by_cpu' = sort_by_cpu ]_vars

C15_Witness ==
    /\ pc = "procs"
    /\ c = "s"
    /\ s_count = 1
    /\ ~sort_by_cpu
    /\ Len(procs) = 2
    /\ procs[1].mem_percent # procs[2].mem_percent

\* C16: a sleep in which no q, s or k arrives makes exactly
\* REFRESH_INTERVAL * 10 polls, never more, and is always followed by a
\* new sample and a draw, so that with no such key ever arriving the
\* screen is drawn again and again for ever.
C16_AutoRefresh ==
    /\ [](pc = "sleep" => i < REFRESH_INTERVAL * 10)
    /\ [][ (pc = "sleep" /\ pc' = "top") => i = REFRESH_INTERVAL * 10 - 1 ]_vars
    /\ (pc = "top" /\ LINES > 0) ~> (pc = "sleep" /\ i = 0)

\* C17: for every process of the scan, proc_diff is its total time minus
\* the one of the previous map when the pid is in that map and the time
\* did not go back, and 0 otherwise; its cpu percent is
\* 100 * proc_diff / tot_diff when tot_diff > 0 and 0 otherwise, so it is
\* never negative and never comes from a wrapped difference.
C17_ProcessCpuPercent ==
    pc = "procs" =>
        \A k \in 1..Len(procs) :
            LET q == procs[k]
                cur == q.utime + q.stime
                prev == IF q.pid \in DOMAIN prev_procs
                          THEN prev_procs[q.pid].utime + prev_procs[q.pid].stime
                          ELSE 0
                proc_diff == IF q.pid \in DOMAIN prev_procs /\ cur >= prev
                               THEN cur - prev ELSE 0
            IN  /\ q.cpu_percent[2] > 0
                /\ q.cpu_percent[1] >= 0
                /\ IF tot_diff > 0
                     THEN q.cpu_percent[1] * tot_diff = 100 * proc_diff * q.cpu_percent[2]
                     ELSE q.cpu_percent[1] = 0

C17_Witness ==
    /\ pc = "procs"
    /\ tot_diff > 0
    /\ \E k \in 1..Len(procs) :
          /\ procs[k].pid \in DOMAIN prev_procs
          /\ total_time(procs[k]) < total_time(prev_procs[procs[k].pid])
    /\ \E k \in 1..Len(procs) :
          /\ procs[k].pid \in DOMAIN prev_procs
          /\ total_time(procs[k]) > total_time(prev_procs[procs[k].pid])

\* C18: the used memory shown is total - available when MemAvailable was
\* read on the tick and total - free when it was not, whatever the two
\* values are up to the total.
C18_UsedMemory ==
    (pc = "sleep" /\ meminfo.avail <= total_mem_kb_cache
                  /\ meminfo.free <= total_mem_kb_cache) =>
        mem_used = IF meminfo.has_avail
                     THEN total_mem_kb_cache - meminfo.avail
                     ELSE total_mem_kb_cache - meminfo.free

\* Field n (n >= 3) of a stat line by the rule of proc(5): the command
\* ends at the last closing parenthesis, which is in the last token that
\* is no number but the state letter after it; the state is field 3.
TrueField(line, n) ==
    LET state == CHOOSE k \in 1..Len(line) :
                    line[k] = Word /\ \A m \in (k + 1)..Len(line) : line[m] # Word
    IN  line[state + n - 3]

\* C19: from a stat line whose command holds spaces or closing
\* parentheses, and so is more than one token, read_proc takes the true
\* fields 14, 15 and 24: utime, stime and rss of the snapshot are those of
\* the line.
C19_StatFieldsOfLine ==
    (pc = "procs" /\ procs # <<>> /\ Len(fields) >= StatFields) =>
        LET p == procs[Len(procs)]
        IN  /\ p.utime = TrueField(fields, 14) % Wrap
            /\ p.stime = TrueField(fields, 15) % Wrap
            /\ p.rss = (TrueField(fields, 24) * PageSizeKb) % Wrap

\* The arguments of a command line joined by single spaces: every NUL but
\* one that ends the input becomes a space.
Joined(bytes) ==
    LET n == Len(bytes)
        body == IF n > 0 /\ bytes[n] = NUL THEN SubSeq(bytes, 1, n - 1) ELSE bytes
    IN  [k \in 1..Len(body) |-> IF body[k] = NUL THEN " " ELSE body[k]]

\* C20: the command of a process is all the arguments of its command
\* line joined by single spaces, with no space at the end when the line
\* ends in a NUL; the short name of comm is taken only when the command
\* line is empty.
C20_CommandIsJoinedArguments ==
    (pc = "procs" /\ procs # <<>> /\ cmdline.open /\ cmdline.comm_open) =>
        procs[Len(procs)].cmd =
            IF cmdline.bytes = <<>> THEN getline(cmdline.comm, NL)
            ELSE Joined(cmdline.bytes)

====
